---- MODULE Spec2Model ----
(***************************************************************************)
(* Model of the Binance futures bot's two planners, execute_twap_order     *)
(* (src/src/advanced/twap.py) and execute_grid_strategy                    *)
(* (src/src/advanced/grid_strategy.py), over the BinanceBot helpers of     *)
(* src/src/utils.py.                                                       *)
(*                                                                         *)
(* Numbers.  The program computes on Python floats.  A float is modelled   *)
(* as a decimal fixed-point number: the integer v stands for v / Scale.    *)
(* Every division and multiplication rounds its exact result to the        *)
(* nearest representable value, ties to even, which is what IEEE-754       *)
(* arithmetic does at its own (finer) resolution.  round(x, nd) rounds to  *)
(* the nearest multiple of 10^-nd, ties to even.                           *)
(***************************************************************************)
EXTENDS Integers, Sequences, FiniteSets, TLC

----------------------------------------------------------------------------
(* Bounds of the model *)

\* largest num_orders of a TWAP run that is executed slice by slice
MaxOrders == 3
\* largest num_grids of a grid run that is executed level by level
MaxGrids == 3
\* largest num_orders / num_grids of a plan that is only computed
MaxPlanOrders == 7
MaxPlanGrids == 7

----------------------------------------------------------------------------
(* Float arithmetic *)

\* resolution of the modelled floats: v stands for v / Scale
Scale == 10 * 10 * 10 * 10

\* <<q, r>> with a * b = q * c + r and 0 <= r < c, for a, b >= 0 and c > 0,
\* computed without forming a * b (which may exceed the integer width)
\* one step of QuoRem: from h = <<q, r>> for a * (b \div 2) to a * b
QuoRemStep(h, a, b, c) ==
  LET d  == IF 2 * h[2] >= c THEN <<2 * h[1] + 1, 2 * h[2] - c>>
                             ELSE <<2 * h[1], 2 * h[2]>>
      qa == IF b % 2 = 1 THEN a \div c ELSE 0
      ra == IF b % 2 = 1 THEN a % c ELSE 0
  IN  IF d[2] + ra >= c THEN <<d[1] + qa + 1, d[2] + ra - c>>
                        ELSE <<d[1] + qa, d[2] + ra>>

RECURSIVE QuoRem(_, _, _)
QuoRem(a, b, c) ==
  IF b = 0 THEN <<0, 0>>
  ELSE CHOOSE qr \in {QuoRemStep(h, a, b, c) : h \in {QuoRem(a, b \div 2, c)}} : TRUE

\* round the exact value q + r/c to the nearest integer, ties to even
RoundHalfEven(qr, c) ==
  IF 2 * qr[2] > c THEN qr[1] + 1
  ELSE IF 2 * qr[2] = c THEN qr[1] + (qr[1] % 2)
  ELSE qr[1]

\* float division x / y of two floats
FDiv(x, y) == RoundHalfEven(QuoRem(x, Scale, y), y)

\* float division x / n of a float by the integer n
FDivInt(x, n) == RoundHalfEven(QuoRem(x, 1, n), n)

\* float multiplication x * y of two floats
FMul(x, y) == RoundHalfEven(QuoRem(x, y, Scale), Scale)

\* the float of the integer n
Float(n) == n * Scale

\* 10^nd for the precisions the program uses
Pow10(nd) == CASE nd = 1 -> 10 [] nd = 2 -> 100 [] nd = 3 -> 1000 [] nd = 4 -> 10000

\* Python's round(x, nd); at nd = 4 the result is x itself, the model's
\* floats having no finer digit
Round(x, nd) ==
  LET tick == Scale \div Pow10(nd)
  IN  RoundHalfEven(QuoRem(x, 1, tick), tick) * tick

Abs(x) == IF x < 0 THEN -x ELSE x

----------------------------------------------------------------------------
(* BinanceBot helpers (src/src/utils.py) *)

\* the symbols the runs are invoked with
Symbols == {"BTCUSDT", "ETHUSDT", "ADAUSDT", "XRPUSDT"}

\* Python's  sub in symbol  on the symbols above
InSymbol(sub, symbol) ==
  \/ sub = "BTC" /\ symbol = "BTCUSDT"
  \/ sub = "ETH" /\ symbol = "ETHUSDT"

\* BinanceBot.__init__: simulated mode unless both keys are set and the
\* client could be constructed
InitSimulated(keys, clientOk) == ~(keys /\ clientOk)

\* BinanceBot.validate_symbol; exchOk: futures_exchange_info did not raise
valid_symbols == {"BTCUSDT", "ETHUSDT", "ADAUSDT", "DOTUSDT"}

validate_symbol(sim, symbol, exchOk) ==
  IF sim THEN symbol \in valid_symbols ELSE exchOk

ValidateCallsNone(sim) == <<>>

\* the exchange calls validate_symbol makes
ValidateCalls(sim) == IF sim THEN <<>> ELSE <<"exchange_info">>

\* BinanceBot.get_fear_greed_index; fg is the index in the last row of the
\* sentiment file, or -1 when the file or the row cannot be read
get_fear_greed_index(fg) == IF fg = -1 THEN 50 ELSE fg

ShouldTradeInclusive(side, fear_greed_index) ==
  IF side = "BUY" THEN fear_greed_index <= 40
  ELSE IF side = "SELL" THEN fear_greed_index >= 60
  ELSE TRUE

\* BinanceBot.should_trade_based_on_sentiment
should_trade_based_on_sentiment(side, fear_greed_index) ==
  IF side = "BUY" THEN fear_greed_index < 40
  ELSE IF side = "SELL" THEN fear_greed_index > 60
  ELSE TRUE

\* BinanceBot.format_price
format_price(price, symbol) ==
  IF InSymbol("BTC", symbol) THEN Round(price, 2)
  ELSE IF InSymbol("ETH", symbol) THEN Round(price, 2)
  ELSE Round(price, 4)

\* BinanceBot.format_quantity
format_quantity(quantity, symbol) ==
  IF InSymbol("BTC", symbol) THEN Round(quantity, 3)
  ELSE IF InSymbol("ETH", symbol) THEN Round(quantity, 2)
  ELSE Round(quantity, 1)

\* BinanceBot.log_order: the entry written to the order log
log_order(sim, order_type, symbol, side, quantity, status) ==
  [type |-> order_type, symbol |-> symbol, side |-> side,
   quantity |-> quantity, status |-> status,
   mode |-> IF sim THEN "SIMULATED" ELSE "LIVE"]

----------------------------------------------------------------------------
(* State *)

VARIABLES
  pc,                 \* position of the running utility
  args,               \* the arguments of the invocation
  simulated_mode,     \* bot.simulated_mode
  hist,               \* state of data/historical_prices.csv
  fear_greed,         \* the index read by the sentiment check, -1 if not read
  symbol_data,        \* twap: the frame loaded for the simulation
  i,                  \* loop index of the slice / level loop
  quantity_per_order, \* twap
  interval_seconds,   \* twap
  executed_orders,    \* twap: rows appended for the slices that completed
  total_executed_qty, \* twap
  attempts,           \* order numbers of the slice / level attempts, in order
  sleeps,             \* twap: order numbers after which the run slept
  price_src,          \* where the last current_price came from
  order_log,          \* entries written by log_order
  exchange_calls,     \* calls made on bot.client, in order
  submitted,          \* order requests submitted or simulated, in order
  order_results,      \* the status of each order_result, in order
  completion_rate,    \* twap: the rate printed by the summary, -1 if none
  current_price,      \* the price returned by get_current_price
  grid,               \* grid: price_range, upper_price, lower_price, price_step,
                      \*       investment_per_grid
  grid_price,         \* grid: the unformatted price of each level, in order
  grid_levels,        \* grid
  placed_orders,      \* grid
  total_placed_value, \* grid
  reject,             \* the check that ended the run early, "none" if none did
  result              \* "none" while running, then "success" or "failure"

vars == <<pc, args, simulated_mode, hist, fear_greed, symbol_data, i,
          quantity_per_order, interval_seconds, executed_orders,
          total_executed_qty, attempts, sleeps, price_src, order_log,
          exchange_calls, submitted, order_results, completion_rate,
          current_price, grid, grid_price, grid_levels, placed_orders,
          total_placed_value, reject, result>>

gridVars == <<current_price, grid, grid_price, grid_levels, placed_orders,
              total_placed_value>>

twapVars == <<symbol_data, quantity_per_order, interval_seconds,
              executed_orders, total_executed_qty, sleeps, completion_rate>>

NoGrid ==
  [price_range |-> 0, upper_price |-> 0, lower_price |-> 0, price_step |-> 0,
   investment_per_grid |-> 0]

NoArgs ==
  [util |-> "none", symbol |-> "", side |-> "", simulate |-> FALSE,
   use_sentiment |-> FALSE, total_quantity |-> 0, duration_minutes |-> 0,
   num_orders |-> 0, total_investment |-> 0, price_range_pct |-> 0,
   num_grids |-> 0, quantity |-> 0, price |-> 0, stop_price |-> 0,
   limit_price |-> 0, stop_limit_price |-> 0]

Init ==
  /\ pc = "idle"
  /\ args = NoArgs
  /\ simulated_mode = FALSE
  /\ hist = "rows"
  /\ fear_greed = -1
  /\ symbol_data = "unset"
  /\ i = 0
  /\ quantity_per_order = 0
  /\ interval_seconds = 0
  /\ executed_orders = <<>>
  /\ total_executed_qty = 0
  /\ attempts = <<>>
  /\ sleeps = <<>>
  /\ price_src = "none"
  /\ order_log = <<>>
  /\ exchange_calls = <<>>
  /\ submitted = <<>>
  /\ order_results = <<>>
  /\ completion_rate = -1
  /\ current_price = 0
  /\ grid = NoGrid
  /\ grid_price = <<>>
  /\ grid_levels = <<>>
  /\ placed_orders = <<>>
  /\ total_placed_value = 0
  /\ reject = "none"
  /\ result = "none"

----------------------------------------------------------------------------
(* Environment *)

Sides == {"BUY", "SELL", "HOLD"}

\* the index in the last row of data/fear_greed.csv, -1 for an unreadable file
FearGreedFiles == {39, 40, 60, 61, 71, -1}

\* data/historical_prices.csv: rows for the symbol, no rows for it, not
\* readable (no file, no symbol or timestamp column), or rows without close
HistFiles == {"rows", "no_rows", "unreadable", "no_close"}

\* BinanceBot.get_simulated_price: where the price comes from
SimulatedPriceSrc(h) == IF h = "rows" THEN "historical" ELSE "default"

----------------------------------------------------------------------------
(* execute_twap_order (src/src/advanced/twap.py) *)

\* 0, 0.001, 0.003 and 3
TwapQuantities == {0, Scale \div 1000, 3 * (Scale \div 1000), Float(3)}

TwapArgs(maxOrders, quantities, durations) ==
  [util : {"twap"}, symbol : Symbols, side : Sides, simulate : BOOLEAN,
   use_sentiment : BOOLEAN, total_quantity : quantities,
   duration_minutes : durations, num_orders : 0..maxOrders,
   total_investment : {0}, price_range_pct : {0}, num_grids : {0},
   quantity : {0}, price : {0}, stop_price : {0}, limit_price : {0},
   stop_limit_price : {0}]

\* lines 39-65: the first check that rejects the run, "none" if none does
TwapReject(a, sim, exchOk, fg) ==
  IF ~validate_symbol(sim, a.symbol, exchOk) THEN "symbol"
  ELSE IF a.side \notin {"BUY", "SELL"} THEN "side"
  ELSE IF a.total_quantity <= 0 THEN "total_quantity"
  ELSE IF a.duration_minutes <= 0 THEN "duration_minutes"
  ELSE IF a.num_orders <= 0 THEN "num_orders"
  ELSE IF a.use_sentiment
          /\ ~should_trade_based_on_sentiment(a.side, get_fear_greed_index(fg))
       THEN "sentiment"
  ELSE "none"

\* whether the run reads the sentiment index (lines 61-62)
TwapReadsSentiment(a, sim, exchOk) ==
  /\ a.use_sentiment
  /\ TwapReject([a EXCEPT !.use_sentiment = FALSE], sim, exchOk, 50) = "none"

QuantityPerOrderNext(total_quantity, num_orders) ==
  FDivInt(total_quantity, num_orders + 1)

\* lines 69-71
QuantityPerOrder(total_quantity, num_orders) == FDivInt(total_quantity, num_orders)

IntervalSeconds(duration_minutes, num_orders) ==
  FDivInt(Float(duration_minutes * 60), num_orders)

\* lines 88-105: the frame the simulation reads its prices from
LoadSymbolData(h) ==
  CASE h = "rows" -> "rows"
    [] h = "no_rows" -> "dummy"
    [] h = "no_close" -> "no_close"
    [] h = "unreadable" -> "empty"

\* lines 27-105: construction of the bot, validation, the plan
TwapBegin(a, keys, clientOk, exchOk, fg, h) ==
  LET sim == a.simulate \/ InitSimulated(keys, clientOk)
      rej == TwapReject(a, sim, exchOk, fg)
  IN  /\ pc = "idle"
      /\ args' = a
      /\ simulated_mode' = sim
      /\ hist' = h
      /\ exchange_calls' = exchange_calls \o ValidateCalls(sim)
      /\ fear_greed' = IF TwapReadsSentiment(a, sim, exchOk)
                       THEN get_fear_greed_index(fg) ELSE -1
      /\ reject' = rej
      /\ IF rej # "none"
         THEN /\ pc' = "done"
              /\ result' = "failure"
              /\ UNCHANGED <<quantity_per_order, interval_seconds, symbol_data>>
         ELSE /\ pc' = "twap_loop"
              /\ result' = "none"
              /\ quantity_per_order' = QuantityPerOrder(a.total_quantity, a.num_orders)
              /\ interval_seconds' = IntervalSeconds(a.duration_minutes, a.num_orders)
              /\ symbol_data' = IF sim THEN LoadSymbolData(h) ELSE "unset"
      /\ UNCHANGED <<i, executed_orders, total_executed_qty, attempts, sleeps,
                     price_src, order_log, submitted, order_results,
                     completion_rate>>
      /\ UNCHANGED gridVars

TwapStart ==
  /\ pc = "idle"
  /\ \E a \in TwapArgs(MaxOrders, TwapQuantities, {0, 1}),
     keys \in BOOLEAN, clientOk \in BOOLEAN, exchOk \in BOOLEAN,
        fg \in FearGreedFiles, h \in HistFiles :
       TwapBegin(a, keys, clientOk, exchOk, fg, h)

\* lines 108, 194-197: where the run goes after the slice with index idx,
\* failed or not
AfterSliceAbort(idx, num_orders, failed) ==
  IF failed THEN "twap_stats"
  ELSE IF idx + 1 < num_orders THEN "twap_loop" ELSE "twap_stats"

AfterSlice(idx, num_orders, failed) ==
  IF idx + 1 < num_orders THEN "twap_loop" ELSE "twap_stats"

\* line 167; exec: the executedQty of the order result
ExecutedQty(sim, exec, order_quantity) ==
  IF sim \/ exec \in {"full", "absent"} THEN order_quantity
  ELSE IF exec = "partial" THEN FDivInt(order_quantity, 2)
  ELSE 0

\* lines 142, 148: the status of the order result; the exchange reports a
\* status that agrees with the executedQty it reports
TwapResultStatus(sim, exec) ==
  IF sim \/ exec \in {"full", "absent"} THEN "FILLED"
  ELSE IF exec = "partial" THEN "PARTIALLY_FILLED"
  ELSE "NEW"

\* line 186: the run sleeps after the slice with index idx
SleepsAfter(idx, num_orders) == idx < num_orders - 1

\* lines 108-197, one iteration of the loop.
\*   tick: outcome of futures_symbol_ticker in live mode, "ok", "api_error"
\*         (BinanceAPIException, caught by get_current_price) or "error"
\*   create: outcome of futures_create_order in live mode, "ok" or "error"
\*   exec: the executedQty the exchange reports, "full", "partial" (half),
\*         "none" (0), or "absent" when the result has no such field
TwapSlice(tick, create, exec) ==
  LET order_num == i + 1
      fromFrame == simulated_mode /\ symbol_data # "empty"
      priceRaises == IF fromFrame THEN symbol_data = "no_close"
                     ELSE ~simulated_mode /\ tick = "error"
      src == IF fromFrame THEN "historical_row"
             ELSE IF simulated_mode THEN SimulatedPriceSrc(hist)
             ELSE IF tick = "ok" THEN "exchange"
             ELSE SimulatedPriceSrc(hist)
      tickCalls == IF fromFrame \/ simulated_mode THEN <<>> ELSE <<"ticker">>
      order_quantity == format_quantity(quantity_per_order, args.symbol)
      createRaises == ~simulated_mode /\ create = "error"
      createCalls == IF simulated_mode THEN <<>> ELSE <<"create_order">>
      request == [type |-> "MARKET", symbol |-> args.symbol, side |-> args.side,
                  quantity |-> order_quantity, price |-> -1, stop_price |-> -1]
      executed_qty == ExecutedQty(simulated_mode, exec, order_quantity)
  IN  /\ pc = "twap_loop"
      /\ i < args.num_orders
      /\ attempts' = Append(attempts, order_num)
      /\ i' = i + 1
      /\ IF priceRaises
         THEN /\ exchange_calls' = exchange_calls \o tickCalls
              /\ UNCHANGED <<price_src, order_log, submitted, order_results,
                             executed_orders, total_executed_qty, sleeps>>
         ELSE IF createRaises
         THEN /\ exchange_calls' = exchange_calls \o tickCalls \o createCalls
              /\ price_src' = src
              /\ UNCHANGED <<order_log, submitted, order_results,
                             executed_orders, total_executed_qty, sleeps>>
         ELSE /\ exchange_calls' = exchange_calls \o tickCalls \o createCalls
              /\ price_src' = src
              /\ submitted' = Append(submitted, request)
              /\ order_results' = Append(order_results,
                    TwapResultStatus(simulated_mode, exec))
              /\ order_log' = Append(order_log,
                    log_order(simulated_mode, "TWAP_MARKET", args.symbol,
                              args.side, order_quantity, "FILLED"))
              /\ executed_orders' = Append(executed_orders,
                    [order_num |-> order_num, quantity |-> executed_qty])
              /\ total_executed_qty' = total_executed_qty + executed_qty
              /\ sleeps' = IF SleepsAfter(i, args.num_orders)
                           THEN Append(sleeps, order_num) ELSE sleeps
      /\ pc' = AfterSlice(i, args.num_orders, priceRaises \/ createRaises)
      /\ UNCHANGED <<args, simulated_mode, hist, fear_greed, symbol_data,
                     quantity_per_order, interval_seconds, completion_rate,
                     reject, result>>
      /\ UNCHANGED gridVars

TwapOrder ==
  /\ pc = "twap_loop"
  /\ \E tick \in {"ok", "api_error", "error"}, create \in {"ok", "error"},
     exec \in {"full", "partial", "none", "absent"} :
       TwapSlice(tick, create, exec)

TwapSucceededAboveOne(executed) == executed > Float(1)

\* line 203: the run reports success
TwapSucceeded(executed) == executed > 0

CompletionRateFraction(executed, total_quantity) ==
  FDiv(executed, total_quantity)

\* line 205
CompletionRate(executed, total_quantity) ==
  FMul(FDiv(executed, total_quantity), Float(100))

\* lines 199-239
TwapStats ==
  /\ pc = "twap_stats"
  /\ pc' = "done"
  /\ IF TwapSucceeded(total_executed_qty)
     THEN /\ completion_rate' = CompletionRate(total_executed_qty, args.total_quantity)
          /\ result' = "success"
     ELSE /\ completion_rate' = -1
          /\ result' = "failure"
  /\ UNCHANGED <<args, simulated_mode, hist, fear_greed, symbol_data, i,
                 quantity_per_order, interval_seconds, executed_orders,
                 total_executed_qty, attempts, sleeps, price_src, order_log,
                 exchange_calls, submitted, order_results, reject>>
  /\ UNCHANGED gridVars

----------------------------------------------------------------------------
(* BinanceBot.get_current_price and get_simulated_price (src/src/utils.py) *)

default_prices(symbol) ==
  CASE symbol = "BTCUSDT" -> Float(45000)
    [] symbol = "ETHUSDT" -> Float(2500)
    [] symbol = "ADAUSDT" -> Scale \div 2
    [] symbol = "DOTUSDT" -> Float(7)
    [] OTHER -> Float(100)

\* h: state of the historical file, close: the close of its last row
get_simulated_price(h, close, symbol) ==
  IF h = "rows" THEN close
  ELSE IF h = "no_rows" THEN default_prices(symbol)
  ELSE Float(100)

\* tick: outcome of futures_symbol_ticker, tickPrice: the price it returns
get_current_price(sim, tick, tickPrice, h, close, symbol) ==
  IF sim THEN get_simulated_price(h, close, symbol)
  ELSE IF tick = "ok" THEN tickPrice
  ELSE get_simulated_price(h, close, symbol)

CurrentPriceSrc(sim, tick, h) ==
  IF ~sim /\ tick = "ok" THEN "exchange" ELSE SimulatedPriceSrc(h)

\* the exchange calls get_current_price makes
PriceCalls(sim) == IF sim THEN <<>> ELSE <<"ticker">>

----------------------------------------------------------------------------
(* execute_grid_strategy (src/src/advanced/grid_strategy.py) *)

GridArgs(maxGrids, investments, pcts) ==
  [util : {"grid"}, symbol : Symbols, side : {""}, simulate : BOOLEAN,
   use_sentiment : BOOLEAN, total_quantity : {0}, duration_minutes : {0},
   num_orders : {0}, total_investment : investments, price_range_pct : pcts,
   num_grids : 0..maxGrids, quantity : {0}, price : {0}, stop_price : {0},
   limit_price : {0}, stop_limit_price : {0}]

GridRejectNoRange(a, sim, exchOk) ==
  IF ~validate_symbol(sim, a.symbol, exchOk) THEN "symbol"
  ELSE IF a.total_investment <= 0 THEN "total_investment"
  ELSE IF a.num_grids < 2 THEN "num_grids"
  ELSE "none"

\* lines 38-53: the first check that rejects the run, "none" if none does
GridReject(a, sim, exchOk) ==
  IF ~validate_symbol(sim, a.symbol, exchOk) THEN "symbol"
  ELSE IF a.total_investment <= 0 THEN "total_investment"
  ELSE IF a.price_range_pct <= 0 \/ a.price_range_pct > Float(50)
       THEN "price_range_pct"
  ELSE IF a.num_grids < 2 THEN "num_grids"
  ELSE "none"

InvestmentPerGridGap(total_investment, num_grids) ==
  FDivInt(total_investment, num_grids - 1)

\* line 76
InvestmentPerGrid(total_investment, num_grids) ==
  FDivInt(total_investment, num_grids)

\* lines 69-76
GridParameters(price, a) ==
  LET price_range == FMul(price, FDivInt(a.price_range_pct, 100))
  IN  [price_range |-> price_range,
       upper_price |-> price + FDivInt(price_range, 2),
       lower_price |-> price - FDivInt(price_range, 2),
       price_step |-> FDivInt(price_range, a.num_grids - 1),
       investment_per_grid |-> InvestmentPerGrid(a.total_investment, a.num_grids)]

GridPriceFromOne(g, idx) == g.lower_price + (idx + 1) * g.price_step

\* line 92, for the loop index idx
GridPrice(g, idx) == g.lower_price + idx * g.price_step

OrderSideSwapped(price, current) ==
  IF price < current THEN "SELL"
  ELSE IF price > current THEN "BUY"
  ELSE "BUY"

\* lines 96-104
OrderSide(price, current) ==
  IF price < current THEN "BUY"
  ELSE IF price > current THEN "SELL"
  ELSE "BUY"

OrderType(price, current) ==
  IF price < current THEN "LIMIT"
  ELSE IF price > current THEN "LIMIT"
  ELSE "MARKET"

\* lines 91-114, the level built for the loop index idx
GridLevel(g, idx, current, symbol) ==
  LET price == GridPrice(g, idx)
  IN  [level |-> idx + 1,
       price |-> format_price(price, symbol),
       quantity |-> format_quantity(FDiv(g.investment_per_grid, price), symbol),
       side |-> OrderSide(price, current),
       type |-> OrderType(price, current),
       investment |-> g.investment_per_grid,
       status |-> "PENDING"]

GridLevels(g, num_grids, current, symbol) ==
  [k \in 1..num_grids |-> GridLevel(g, k - 1, current, symbol)]

\* lines 26-122: construction of the bot, validation, the price, the plan.
\*   fg, cont: the sentiment index and the answer to "Continue anyway?"
\*   tick, tickPrice, h, close: as for get_current_price
GridBegin(a, keys, clientOk, exchOk, fg, cont, tick, tickPrice, h, close) ==
  LET sim == a.simulate \/ InitSimulated(keys, clientOk)
      rej == GridReject(a, sim, exchOk)
      index == get_fear_greed_index(fg)
      declined == a.use_sentiment /\ index > 70 /\ ~cont
      raises == ~sim /\ tick = "error"
      price == get_current_price(sim, tick, tickPrice, h, close, a.symbol)
      g == GridParameters(price, a)
  IN  /\ pc = "idle"
      /\ args' = a
      /\ simulated_mode' = sim
      /\ hist' = h
      /\ UNCHANGED <<i, attempts, order_log, submitted, order_results,
                     placed_orders, total_placed_value>>
      /\ UNCHANGED twapVars
      /\ price_src' = IF rej # "none" \/ declined \/ raises THEN price_src
                       ELSE CurrentPriceSrc(sim, tick, h)
      /\ reject' = IF rej # "none" THEN rej
                    ELSE IF declined THEN "sentiment"
                    ELSE IF raises THEN "exception"
                    ELSE "none"
      /\ IF rej # "none"
         THEN /\ pc' = "done"
              /\ result' = "failure"
              /\ exchange_calls' = exchange_calls \o ValidateCalls(sim)
              /\ UNCHANGED <<fear_greed, current_price, grid, grid_price, grid_levels>>
         ELSE IF declined
         THEN /\ pc' = "done"
              /\ result' = "failure"
              /\ exchange_calls' = exchange_calls \o ValidateCalls(sim)
              /\ fear_greed' = index
              /\ UNCHANGED <<current_price, grid, grid_price, grid_levels>>
         ELSE IF raises
         THEN /\ pc' = "done"
              /\ result' = "exception"
              /\ exchange_calls' = exchange_calls \o ValidateCalls(sim) \o PriceCalls(sim)
              /\ fear_greed' = IF a.use_sentiment THEN index ELSE -1
              /\ UNCHANGED <<current_price, grid, grid_price, grid_levels>>
         ELSE /\ pc' = "grid_confirm"
              /\ result' = "none"
              /\ exchange_calls' = exchange_calls \o ValidateCalls(sim) \o PriceCalls(sim)
              /\ fear_greed' = IF a.use_sentiment THEN index ELSE -1
              /\ current_price' = price
              /\ grid' = g
              /\ grid_price' = [k \in 1..a.num_grids |-> GridPrice(g, k - 1)]
              /\ grid_levels' = GridLevels(g, a.num_grids, price, a.symbol)

\* the prices the exchange and the historical file report
LivePrices == {Float(100)}
HistCloses == {Float(100)}

GridInvestments == {0, Float(1000)}
GridRanges == {0, Float(10), Float(60)}

GridStart ==
  /\ pc = "idle"
  /\ \E a \in GridArgs(MaxGrids, GridInvestments, GridRanges),
        keys \in BOOLEAN, clientOk \in BOOLEAN, exchOk \in BOOLEAN,
        fg \in FearGreedFiles, cont \in BOOLEAN,
        tick \in {"ok", "api_error", "error"}, tickPrice \in LivePrices,
        h \in HistFiles, close \in HistCloses :
       GridBegin(a, keys, clientOk, exchOk, fg, cont, tick, tickPrice, h, close)

GridConfirmIgnored(proceed) ==
  /\ pc = "grid_confirm"
  /\ pc' = "grid_loop"
  /\ result' = "none"
  /\ reject' = IF proceed THEN "none" ELSE "cancelled"
  /\ UNCHANGED <<args, simulated_mode, hist, fear_greed, i, attempts, price_src,
                 order_log, exchange_calls, submitted, order_results>>
  /\ UNCHANGED twapVars
  /\ UNCHANGED gridVars

\* lines 124-130: the answer to "Proceed with placing ... grid orders?"
GridConfirm(proceed) ==
  /\ pc = "grid_confirm"
  /\ IF proceed
     THEN pc' = "grid_loop" /\ result' = "none" /\ reject' = "none"
     ELSE pc' = "done" /\ result' = "failure" /\ reject' = "cancelled"
  /\ UNCHANGED <<args, simulated_mode, hist, fear_greed, i, attempts, price_src,
                 order_log, exchange_calls, submitted, order_results>>
  /\ UNCHANGED twapVars
  /\ UNCHANGED gridVars

GridAnswer == \E proceed \in BOOLEAN : GridConfirm(proceed)

SimulatedStatusFilled(type) == "FILLED"

\* line 147: the status of a simulated order
SimulatedStatus(type) == IF type = "LIMIT" THEN "NEW" ELSE "FILLED"

AfterLevelAbort(idx, num_levels, failed) ==
  IF failed THEN "grid_summary"
  ELSE IF idx + 1 < num_levels THEN "grid_loop" ELSE "grid_summary"

\* lines 134, 195-199: where the run goes after the level with index idx,
\* failed or not
AfterLevel(idx, num_levels, failed) ==
  IF idx + 1 < num_levels THEN "grid_loop" ELSE "grid_summary"

\* lines 134-199, one iteration of the loop.
\*   create: outcome of futures_create_order in live mode, "ok" or "error"
\*   status: the status the exchange reports
GridPlace(create, status) ==
  LET lvl == grid_levels[i + 1]
      raises == ~simulated_mode /\ create = "error"
      st == IF simulated_mode THEN SimulatedStatus(lvl.type) ELSE status
      request == [type |-> lvl.type, symbol |-> args.symbol, side |-> lvl.side,
                  quantity |-> lvl.quantity,
                  price |-> IF lvl.type = "MARKET" THEN -1 ELSE lvl.price,
                  stop_price |-> -1]
  IN  /\ pc = "grid_loop"
      /\ i < Len(grid_levels)
      /\ i' = i + 1
      /\ attempts' = Append(attempts, lvl.level)
      /\ exchange_calls' = IF simulated_mode THEN exchange_calls
                           ELSE Append(exchange_calls, "create_order")
      /\ IF raises
         THEN /\ grid_levels' = [grid_levels EXCEPT ![i + 1].status = "FAILED"]
              /\ UNCHANGED <<order_log, submitted, order_results, placed_orders,
                             total_placed_value>>
         ELSE /\ grid_levels' = [grid_levels EXCEPT ![i + 1].status = st]
              /\ submitted' = Append(submitted, request)
              /\ order_results' = Append(order_results, st)
              /\ order_log' = Append(order_log,
                    log_order(simulated_mode, IF lvl.type = "LIMIT" THEN "GRID_LIMIT"
                                              ELSE "GRID_MARKET",
                              args.symbol, lvl.side, lvl.quantity, "FILLED"))
              /\ placed_orders' = Append(placed_orders,
                    [level |-> lvl.level, side |-> lvl.side, price |-> lvl.price,
                     quantity |-> lvl.quantity, status |-> st])
              /\ total_placed_value' = total_placed_value + lvl.investment
      /\ pc' = AfterLevel(i, Len(grid_levels), raises)
      /\ UNCHANGED <<args, simulated_mode, hist, fear_greed, price_src, reject,
                     result, current_price, grid, grid_price>>
      /\ UNCHANGED twapVars

GridOrder ==
  /\ pc = "grid_loop"
  /\ \E create \in {"ok", "error"}, status \in {"NEW", "FILLED", "REJECTED"} :
       GridPlace(create, status)

SuccessfulOrdersAll(placed) == Len(placed)

\* line 202
SuccessfulOrders(placed) ==
  Cardinality({k \in 1..Len(placed) : placed[k].status \notin {"FAILED", "REJECTED"}})

\* lines 201-241
GridSummary ==
  /\ pc = "grid_summary"
  /\ pc' = "done"
  /\ result' = IF SuccessfulOrders(placed_orders) > 0 THEN "success" ELSE "failure"
  /\ UNCHANGED <<args, simulated_mode, hist, fear_greed, i, attempts, price_src,
                 order_log, exchange_calls, submitted, order_results, reject>>
  /\ UNCHANGED twapVars
  /\ UNCHANGED gridVars

----------------------------------------------------------------------------
(* The single-shot placers: place_market_order (src/src/market_orders.py),
   place_limit_order (src/src/limit_orders.py), place_stop_limit_order
   (src/src/advanced/stop_limit.py), place_oco_order (src/src/advanced/oco.py) *)

PlacerArgs(util, quantities, prices, stop_prices, limit_prices, stop_limit_prices) ==
  [util : {util}, symbol : Symbols, side : Sides, simulate : {FALSE},
   use_sentiment : BOOLEAN, total_quantity : {0}, duration_minutes : {0},
   num_orders : {0}, total_investment : {0}, price_range_pct : {0},
   num_grids : {0}, quantity : quantities, price : prices,
   stop_price : stop_prices, limit_price : limit_prices,
   stop_limit_price : stop_limit_prices]

\* an order request, as passed to futures_create_order or written into the
\* simulated order result; -1 stands for a field the request does not carry
Request(type, symbol, side, quantity, price, stop_price) ==
  [type |-> type, symbol |-> symbol, side |-> side, quantity |-> quantity,
   price |-> price, stop_price |-> stop_price]

\* the first futures_create_order call that raises, 0 if none does
FirstError(outcomes) ==
  IF \E k \in 1..Len(outcomes) : outcomes[k] = "error"
  THEN CHOOSE k \in 1..Len(outcomes) :
         /\ outcomes[k] = "error"
         /\ \A j \in 1..(k - 1) : outcomes[j] # "error"
  ELSE 0

CreateCallsRetry(sim, outcomes) ==
  IF sim THEN 0
  ELSE IF FirstError(outcomes) = 0 THEN Len(outcomes)
  ELSE FirstError(outcomes) + 1

\* the number of futures_create_order calls the try block makes: the first
\* call that raises leaves the block
CreateCalls(sim, outcomes) ==
  IF sim THEN 0
  ELSE IF FirstError(outcomes) = 0 THEN Len(outcomes)
  ELSE FirstError(outcomes)

TryCallsWithCancel(sim, outcomes) ==
  IF ~sim /\ FirstError(outcomes) > 1
  THEN [k \in 1..CreateCalls(sim, outcomes) |-> "create_order"] \o <<"cancel_order">>
  ELSE [k \in 1..CreateCalls(sim, outcomes) |-> "create_order"]

\* the calls the try block and its except branch make on the client
TryCalls(sim, outcomes) ==
  [k \in 1..CreateCalls(sim, outcomes) |-> "create_order"]

\* the requests the exchange accepted, or that were simulated
Accepted(sim, outcomes, requests) ==
  IF sim \/ FirstError(outcomes) = 0 THEN requests
  ELSE SubSeq(requests, 1, FirstError(outcomes) - 1)

\* the stage at which a placer leaves before the try block, "none" if it
\* reaches it.  rej: the result of its input validation; direction: the result
\* of its directional checks; tick: as for get_current_price
PlacerStage(a, sim, fg, tick, rej, direction) ==
  IF rej # "none" THEN rej
  ELSE IF a.use_sentiment
          /\ ~should_trade_based_on_sentiment(a.side, get_fear_greed_index(fg))
       THEN "sentiment"
  ELSE IF ~sim /\ tick = "error" THEN "exception"
  ELSE IF ~direction THEN "direction"
  ELSE "none"

\* the body shared by the four placers: construction of the bot, validation,
\* sentiment gate, price, directional checks, the try block.
\*   price: the value of get_current_price
\*   requests, outcomes: the orders of the try block and, in live mode, the
\*                       outcome of each futures_create_order call
\*   results: the statuses of the order results the block builds
\*   logs: the entries it logs; summaryRaises: the summary raises
PlaceOrder(a, sim, fg, tick, h, price, rej, direction, requests, outcomes, results, logs, summaryRaises) ==
  LET stage == PlacerStage(a, sim, fg, tick, rej, direction)
      calls == CreateCalls(sim, outcomes)
      tried == IF sim THEN Len(requests) ELSE calls
  IN  /\ pc = "idle"
      /\ pc' = "done"
      /\ args' = a
      /\ simulated_mode' = sim
      /\ hist' = h
      /\ reject' = stage
      /\ fear_greed' = IF rej = "none" /\ a.use_sentiment
                       THEN get_fear_greed_index(fg) ELSE -1
      /\ exchange_calls' =
           exchange_calls \o ValidateCalls(sim)
           \o (IF stage \in {"none", "exception", "direction"}
               THEN PriceCalls(sim) ELSE <<>>)
           \o (IF stage = "none" THEN TryCalls(sim, outcomes) ELSE <<>>)
      /\ IF stage \in {"none", "direction"}
         THEN /\ current_price' = price
              /\ price_src' = CurrentPriceSrc(sim, tick, h)
         ELSE UNCHANGED <<current_price, price_src>>
      /\ IF stage # "none"
         THEN /\ result' = IF stage = "exception" THEN "exception" ELSE "failure"
              /\ UNCHANGED <<attempts, submitted, order_results, order_log>>
         ELSE /\ attempts' = attempts \o [k \in 1..tried |-> k]
              /\ submitted' = submitted \o Accepted(sim, outcomes, requests)
              /\ IF ~sim /\ FirstError(outcomes) # 0
                 THEN /\ result' = "failure"
                      /\ UNCHANGED <<order_results, order_log>>
                 ELSE /\ order_results' = order_results \o results
                      /\ order_log' = order_log \o logs
                      /\ result' = IF summaryRaises THEN "failure" ELSE "success"
      /\ UNCHANGED <<i, grid, grid_price, grid_levels, placed_orders,
                     total_placed_value>>
      /\ UNCHANGED twapVars

\* market_orders.py lines 31-41
MarketReject(a, sim, exchOk) ==
  IF ~validate_symbol(sim, a.symbol, exchOk) THEN "symbol"
  ELSE IF a.side \notin {"BUY", "SELL"} THEN "side"
  ELSE IF a.quantity <= 0 THEN "quantity"
  ELSE "none"

\* place_market_order.  status: the status the exchange reports
MarketOrder(a, keys, clientOk, exchOk, fg, tick, tickPrice, h, close, create, status) ==
  LET sim == InitSimulated(keys, clientOk)
      price == get_current_price(sim, tick, tickPrice, h, close, a.symbol)
      quantity == format_quantity(a.quantity, a.symbol)
  IN  PlaceOrder(a, sim, fg, tick, h, price,
                 MarketReject(a, sim, exchOk), TRUE,
                 <<Request("MARKET", a.symbol, a.side, quantity, -1, -1)>>,
                 <<create>>,
                 <<IF sim THEN "FILLED" ELSE status>>,
                 <<log_order(sim, "MARKET", a.symbol, a.side, quantity, "FILLED")>>,
                 FALSE)

\* limit_orders.py lines 31-45
LimitReject(a, sim, exchOk) ==
  IF ~validate_symbol(sim, a.symbol, exchOk) THEN "symbol"
  ELSE IF a.side \notin {"BUY", "SELL"} THEN "side"
  ELSE IF a.quantity <= 0 THEN "quantity"
  ELSE IF a.price <= 0 THEN "price"
  ELSE "none"

\* place_limit_order; the checks of lines 61-66 only print a warning
LimitOrder(a, keys, clientOk, exchOk, fg, tick, tickPrice, h, close, create, status) ==
  LET sim == InitSimulated(keys, clientOk)
      current == get_current_price(sim, tick, tickPrice, h, close, a.symbol)
      quantity == format_quantity(a.quantity, a.symbol)
      price == format_price(a.price, a.symbol)
      st == IF sim THEN "NEW" ELSE status
  IN  PlaceOrder(a, sim, fg, tick, h, current,
                 LimitReject(a, sim, exchOk), TRUE,
                 <<Request("LIMIT", a.symbol, a.side, quantity, price, -1)>>,
                 <<create>>,
                 <<st>>,
                 <<log_order(sim, "LIMIT", a.symbol, a.side, quantity, st)>>,
                 FALSE)

\* stop_limit.py lines 32-46
StopLimitReject(a, sim, exchOk) ==
  IF ~validate_symbol(sim, a.symbol, exchOk) THEN "symbol"
  ELSE IF a.side \notin {"BUY", "SELL"} THEN "side"
  ELSE IF a.quantity <= 0 THEN "quantity"
  ELSE IF a.stop_price <= 0 \/ a.limit_price <= 0 THEN "prices"
  ELSE "none"

StopLimitDirectionSwapped(side, stop_price, current) ==
  IF side = "BUY" THEN stop_price < current ELSE stop_price > current

\* stop_limit.py lines 62-75, on the prices as given
StopLimitDirection(side, stop_price, current) ==
  IF side = "BUY" THEN stop_price > current ELSE stop_price < current

\* place_stop_limit_order
StopLimitOrder(a, keys, clientOk, exchOk, fg, tick, tickPrice, h, close, create, status) ==
  LET sim == InitSimulated(keys, clientOk)
      current == get_current_price(sim, tick, tickPrice, h, close, a.symbol)
      quantity == format_quantity(a.quantity, a.symbol)
      stop_price == format_price(a.stop_price, a.symbol)
      limit_price == format_price(a.limit_price, a.symbol)
      st == IF sim THEN "NEW" ELSE status
  IN  PlaceOrder(a, sim, fg, tick, h, current,
                 StopLimitReject(a, sim, exchOk),
                 StopLimitDirection(a.side, a.stop_price, current),
                 <<Request(IF sim THEN "STOP_MARKET" ELSE "STOP", a.symbol,
                           a.side, quantity, limit_price, stop_price)>>,
                 <<create>>,
                 <<st>>,
                 <<log_order(sim, "STOP_LIMIT", a.symbol, a.side, quantity, st)>>,
                 FALSE)

\* oco.py lines 32-46
OcoReject(a, sim, exchOk) ==
  IF ~validate_symbol(sim, a.symbol, exchOk) THEN "symbol"
  ELSE IF a.side \notin {"BUY", "SELL"} THEN "side"
  ELSE IF a.quantity <= 0 THEN "quantity"
  ELSE IF a.price <= 0 \/ a.stop_price <= 0 \/ a.stop_limit_price <= 0
       THEN "prices"
  ELSE "none"

\* oco.py lines 62-81, on the prices as given
OcoDirection(side, price, stop_price, current) ==
  IF side = "SELL" THEN price > current /\ stop_price < current
  ELSE price < current /\ stop_price > current

\* oco.py lines 175-199: loss_pct is zero, and profit_pct / loss_pct raises
\* ZeroDivisionError, exactly when the formatted stop-limit price is the
\* current price
OcoSummaryRaises(stop_limit_price, current) == stop_limit_price = current

\* place_oco_order.  create: the outcomes of the two futures_create_order
\* calls, the limit leg first
OcoOrder(a, keys, clientOk, exchOk, fg, tick, tickPrice, h, close, create) ==
  LET sim == InitSimulated(keys, clientOk)
      current == get_current_price(sim, tick, tickPrice, h, close, a.symbol)
      quantity == format_quantity(a.quantity, a.symbol)
      price == format_price(a.price, a.symbol)
      stop_price == format_price(a.stop_price, a.symbol)
      stop_limit_price == format_price(a.stop_limit_price, a.symbol)
  IN  PlaceOrder(a, sim, fg, tick, h, current,
                 OcoReject(a, sim, exchOk),
                 OcoDirection(a.side, a.price, a.stop_price, current),
                 <<Request(IF sim THEN "LIMIT_MAKER" ELSE "LIMIT", a.symbol,
                           a.side, quantity, price, -1),
                   Request(IF sim THEN "STOP_LOSS_LIMIT" ELSE "STOP", a.symbol,
                           a.side, quantity, stop_limit_price, stop_price)>>,
                 create,
                 <<"EXECUTING">>,
                 <<log_order(sim, "OCO_LIMIT", a.symbol, a.side, quantity, "FILLED"),
                   log_order(sim, "OCO_STOP", a.symbol, a.side, quantity, "FILLED")>>,
                 OcoSummaryRaises(stop_limit_price, current))

\* the inputs of the placers

\* 0, 0.0004 and 1
PlacerQuantities == {0, 4 * (Scale \div 10000), Float(1)}

\* 0.004, below the price precision of BTCUSDT and ETHUSDT
BelowTick == 4 * (Scale \div 1000)

\* the statuses a live order result carries
LiveStatuses == {"NEW", "FILLED"}

\* the inputs that are read in live mode only take one value in simulated mode
ExchOks(keys, clientOk) ==
  IF InitSimulated(keys, clientOk) THEN {TRUE} ELSE BOOLEAN
Ticks(keys, clientOk) ==
  IF InitSimulated(keys, clientOk) THEN {"ok"} ELSE {"ok", "api_error", "error"}
Creates(keys, clientOk) ==
  IF InitSimulated(keys, clientOk) THEN {"ok"} ELSE {"ok", "error"}
Statuses(keys, clientOk) ==
  IF InitSimulated(keys, clientOk) THEN {"NEW"} ELSE LiveStatuses
\* the outcome of the second call is not read when the first call raises
OcoCreates(keys, clientOk) ==
  IF InitSimulated(keys, clientOk) THEN {<<"ok", "ok">>}
  ELSE {<<"ok", "ok">>, <<"ok", "error">>, <<"error", "ok">>}
\* the sentiment file is read only when the gate is enabled
FearGreeds(a) == IF a.use_sentiment THEN FearGreedFiles ELSE {-1}

PlaceMarket ==
  /\ pc = "idle"
  /\ \E a \in PlacerArgs("market", PlacerQuantities, {0}, {0}, {0}, {0}),
        keys \in BOOLEAN, clientOk \in BOOLEAN, h \in HistFiles :
       \E exchOk \in ExchOks(keys, clientOk), fg \in FearGreeds(a),
          tick \in Ticks(keys, clientOk), create \in Creates(keys, clientOk),
          status \in Statuses(keys, clientOk) :
         MarketOrder(a, keys, clientOk, exchOk, fg, tick, Float(100), h,
                     Float(100), create, status)

PlaceLimit ==
  /\ pc = "idle"
  /\ \E a \in PlacerArgs("limit", {0, Float(1)}, {0, Float(99), Float(101)},
                         {0}, {0}, {0}),
        keys \in BOOLEAN, clientOk \in BOOLEAN, h \in HistFiles :
       \E exchOk \in ExchOks(keys, clientOk), fg \in FearGreeds(a),
          tick \in Ticks(keys, clientOk), create \in Creates(keys, clientOk),
          status \in Statuses(keys, clientOk) :
         LimitOrder(a, keys, clientOk, exchOk, fg, tick, Float(100), h,
                    Float(100), create, status)

PlaceStopLimit ==
  /\ pc = "idle"
  /\ \E a \in PlacerArgs("stop_limit", {0, Float(1)}, {0},
                         {0, Float(99), Float(100) - BelowTick, Float(100),
                          Float(100) + BelowTick, Float(101)},
                         {0, Float(100)}, {0}),
        keys \in BOOLEAN, clientOk \in BOOLEAN, h \in HistFiles \ {"no_close"} :
       \E exchOk \in ExchOks(keys, clientOk), fg \in FearGreeds(a),
          tick \in Ticks(keys, clientOk), create \in Creates(keys, clientOk),
          status \in Statuses(keys, clientOk) :
         StopLimitOrder(a, keys, clientOk, exchOk, fg, tick, Float(100), h,
                        Float(100), create, status)

PlaceOco ==
  /\ pc = "idle"
  /\ \E a \in PlacerArgs("oco", {0, Float(1)},
                         {0, Float(99), Float(100) - BelowTick,
                          Float(100) + BelowTick, Float(101)},
                         {Float(99), Float(100) - BelowTick,
                          Float(100) + BelowTick, Float(101)},
                         {0}, {0, Float(100), Float(101)}),
        keys \in BOOLEAN, clientOk \in BOOLEAN, h \in HistFiles \ {"no_close"} :
       \E exchOk \in ExchOks(keys, clientOk), fg \in FearGreeds(a),
          tick \in Ticks(keys, clientOk), create \in OcoCreates(keys, clientOk) :
         OcoOrder(a, keys, clientOk, exchOk, fg, tick, Float(100), h,
                  Float(100), create)

----------------------------------------------------------------------------
(* Specifications *)

\* one invocation of one utility: the two planners run slice by slice and
\* level by level, a placer runs in one step
Next ==
  \/ TwapStart \/ TwapOrder \/ TwapStats
  \/ GridStart \/ GridAnswer \/ GridOrder \/ GridSummary
  \/ PlaceMarket \/ PlaceLimit \/ PlaceStopLimit \/ PlaceOco

Spec == Init /\ [][Next]_vars

\* TWAP runs alone, on one symbol and side, with API keys, live or with the
\* simulation forced, with and without the sentiment gate; the loop is synchronous and is not stopped from outside, so each of
\* its steps is eventually taken
TwapRun ==
  /\ pc = "idle"
  /\ \E a \in TwapArgs(MaxOrders, {0, Float(3)}, {1}),
        fg \in {39, 40}, h \in {"rows", "no_close"} :
       /\ a.symbol = "BTCUSDT" /\ a.side = "BUY"
       /\ TwapBegin(a, TRUE, TRUE, TRUE, fg, h)

TwapNext == TwapRun \/ TwapOrder \/ TwapStats

TwapFairSpec ==
  Init /\ [][TwapNext]_vars /\ WF_vars(TwapOrder) /\ WF_vars(TwapStats)

\* the plans of the two planners, over wider ranges of parameters
PlanQuantities == {Scale \div 1000, Scale \div 10, Float(1), Float(3), Float(10)}
PlanDurations == {1, 2, 60}
PlanInvestments == {Float(100), Float(1000)}
PlanRanges == {Float(1), Float(10), Float(50)}
\* 7, 100, 100.002, 2500 and 45000
PlanPrices == {Float(7), Float(100), Float(100) + Scale \div 500, Float(2500),
               Float(45000)}

TwapPlan ==
  /\ pc = "idle"
  /\ \E a \in TwapArgs(MaxPlanOrders, PlanQuantities, PlanDurations),
        keys \in BOOLEAN, fg \in FearGreedFiles :
       TwapBegin(a, keys, TRUE, TRUE, fg, "rows")

GridPlan ==
  /\ pc = "idle"
  /\ \E a \in GridArgs(MaxPlanGrids, PlanInvestments, PlanRanges),
        keys \in BOOLEAN, tickPrice \in PlanPrices :
       GridBegin(a, keys, TRUE, TRUE, 50, TRUE, "ok", tickPrice, "rows", tickPrice)

PlanNext == TwapPlan \/ GridPlan

PlanSpec == Init /\ [][PlanNext]_vars

----------------------------------------------------------------------------
(* Properties of the TWAP planner *)

\* a TWAP run that passed validation and the sentiment gate
TwapAccepted == args.util = "twap" /\ reject = "none" /\ pc # "idle"

\* a TWAP run that has left the slice loop
TwapLoopOver == TwapAccepted /\ pc \in {"twap_stats", "done"}

\* the order numbers of the slices that failed
FailedSlices ==
  {k \in 1..Len(attempts) :
     \A r \in 1..Len(executed_orders) : executed_orders[r].order_num # k}

OneTo(n) == [k \in 1..n |-> k]

\* the attempts made so far are the slices 1..i, and the loop is left only
\* after num_orders attempts
TwapAttemptsInOrder ==
  TwapAccepted =>
    /\ attempts = OneTo(i)
    /\ i <= args.num_orders
    /\ (pc = "twap_loop" => i < args.num_orders)
    /\ (TwapLoopOver => i = args.num_orders)

\* C1: an accepted TWAP run attempts the slices 1..num_orders in order,
\* whichever of them fail: a failed slice is followed by the next attempt, the
\* loop is left only after num_orders attempts, and a run in the loop always
\* reaches the statistics step.
TwapNeverAborts ==
  /\ []TwapAttemptsInOrder
  /\ (pc = "twap_loop") ~> (pc = "twap_stats")

\* C1 witness: a run is over in which a slice failed and a later one was made
TwapFailureThenAttempt ==
  /\ TwapLoopOver /\ pc = "done"
  /\ \E k \in FailedSlices : k < args.num_orders
  /\ Len(attempts) = args.num_orders

\* C2: an accepted TWAP run of N slices has slept exactly once after each of
\* the slices 1..N-1, failed or not, and not after slice N, when the loop is
\* over.
TwapSleepsBetweenAllSlices ==
  TwapLoopOver => sleeps = OneTo(args.num_orders - 1)

\* C3: a finished accepted TWAP run reports success exactly when the
\* submission of at least one slice completed, and reports failure with no
\* executed quantity exactly when every slice failed.
TwapSuccessIffSubmitted ==
  (TwapAccepted /\ pc = "done") =>
    /\ result = "success" <=> Len(executed_orders) > 0
    /\ (result = "failure" /\ total_executed_qty = 0) <=> Len(executed_orders) = 0

\* total_quantity splits into num_orders equal slices
DividesEvenly == quantity_per_order * args.num_orders = args.total_quantity

\* number of slices of the finished run that failed
FailedCount == args.num_orders - Len(executed_orders)

\* the figures the run reports when part of the slices executed in full
PartialExecution ==
  /\ total_executed_qty = Len(executed_orders) * quantity_per_order
  /\ completion_rate =
       FMul(FDiv(Float(Len(executed_orders)), Float(args.num_orders)), Float(100))
  /\ result = "success"

\* a finished accepted run, evenly divided, with 0 < k < N failed slices
SomeSlicesFailed ==
  /\ TwapAccepted /\ pc = "done" /\ DividesEvenly
  /\ 0 < FailedCount /\ FailedCount < args.num_orders

\* C4 as stated: whenever 0 < k < N slices of an evenly divided run fail, the
\* run reports (N-k) * totalQuantity/N executed, (N-k)/N * 100 percent
\* completion and success.
TwapPartialTotals == SomeSlicesFailed => PartialExecution

\* every completed slice executed the planned slice quantity: formatting
\* left it unchanged and the order result reported it in full
SlicesFilledAsPlanned ==
  /\ format_quantity(quantity_per_order, args.symbol) = quantity_per_order
  /\ \A r \in 1..Len(executed_orders) :
       executed_orders[r].quantity = quantity_per_order

\* C4 amended: the totals hold when, in addition, the slice quantity is
\* representable at the symbol's quantity precision and every completed
\* slice reports it as executed in full.
TwapPartialTotalsWhenFilled ==
  (SomeSlicesFailed /\ SlicesFilledAsPlanned) => PartialExecution

\* C4 witness: such a run, with one of three slices failed
TwapOneOfThreeFailed ==
  /\ SomeSlicesFailed /\ SlicesFilledAsPlanned
  /\ args.num_orders = 3 /\ FailedCount = 1

\* a TWAP plan has been computed
TwapPlanned == TwapAccepted /\ pc = "twap_loop" /\ i = 0

\* C5 as stated: slice quantity times numOrders is totalQuantity, and the
\* interval times numOrders is the duration in seconds.
TwapPlanExact ==
  TwapPlanned =>
    /\ quantity_per_order * args.num_orders = args.total_quantity
    /\ interval_seconds * args.num_orders = Float(args.duration_minutes * 60)

\* C5 amended: both products equal their totals within the rounding error of
\* the division, half a unit of resolution per slice.
TwapPlanWithinTolerance ==
  TwapPlanned =>
    /\ 2 * Abs(quantity_per_order * args.num_orders - args.total_quantity)
         <= args.num_orders
    /\ 2 * Abs(interval_seconds * args.num_orders - Float(args.duration_minutes * 60))
         <= args.num_orders

\* C5 witness: a plan whose interval and slice quantity are both rounded
TwapPlanRounded ==
  /\ TwapPlanned
  /\ quantity_per_order * args.num_orders # args.total_quantity
  /\ interval_seconds * args.num_orders # Float(args.duration_minutes * 60)

----------------------------------------------------------------------------
(* Properties of both planners *)

TwapBadNumbers ==
  args.util = "twap" /\ (args.num_orders <= 0 \/ args.duration_minutes <= 0)

GridBadNumbers ==
  /\ args.util = "grid"
  /\ \/ args.num_grids < 2
     \/ args.price_range_pct <= 0
     \/ args.price_range_pct > Float(50)

\* nothing beyond the validation has been done
NoWorkDone ==
  /\ attempts = <<>> /\ submitted = <<>> /\ order_log = <<>>
  /\ grid_levels = <<>> /\ price_src = "none"
  /\ \A k \in 1..Len(exchange_calls) : exchange_calls[k] = "exchange_info"

\* C6: a TWAP run with num_orders <= 0 or duration_minutes <= 0, and a grid
\* run with num_grids < 2 or price_range_pct outside (0, 50], ends in failure
\* without a slice, a price fetch, a level or an order.
InvalidNumbersRejected ==
  (TwapBadNumbers \/ GridBadNumbers) =>
     pc = "done" /\ result = "failure" /\ NoWorkDone

\* C6 witness: a grid run rejected for its range alone, in live mode
GridRangeRejected ==
  /\ GridBadNumbers /\ reject = "price_range_pct" /\ ~simulated_mode
  /\ args.num_grids >= 2 /\ pc = "done"

----------------------------------------------------------------------------
(* Properties of the grid plan *)

\* a grid plan has been generated
GridPlanned == args.util = "grid" /\ pc = "grid_confirm"

Levels == 1..Len(grid_levels)

\* the side rule applied to the price p of level k
SideRule(k, p) ==
  /\ p < current_price => grid_levels[k].side = "BUY" /\ grid_levels[k].type = "LIMIT"
  /\ p > current_price => grid_levels[k].side = "SELL" /\ grid_levels[k].type = "LIMIT"
  /\ p = current_price => grid_levels[k].side = "BUY" /\ grid_levels[k].type = "MARKET"

CountLevels(side, type) ==
  Cardinality({k \in Levels : grid_levels[k].side = side /\ grid_levels[k].type = type})

\* C7 as stated: every level obeys the side rule with respect to the price
\* recorded on it, and the numbers of recorded prices below, at and above
\* current_price are the numbers of BUY/LIMIT, BUY/MARKET and SELL/LIMIT levels.
SideRuleOnRecordedPrice ==
  GridPlanned =>
    /\ \A k \in Levels : SideRule(k, grid_levels[k].price)
    /\ Cardinality({k \in Levels : grid_levels[k].price < current_price})
         = CountLevels("BUY", "LIMIT")
    /\ Cardinality({k \in Levels : grid_levels[k].price = current_price})
         = CountLevels("BUY", "MARKET")
    /\ Cardinality({k \in Levels : grid_levels[k].price > current_price})
         = CountLevels("SELL", "LIMIT")

\* C7 amended: the rule and the counts hold with respect to the unformatted
\* price lower_price + idx * price_step of each level; the price recorded on
\* the level is that price formatted.
SideRuleOnGridPrice ==
  GridPlanned =>
    /\ \A k \in Levels :
         /\ SideRule(k, grid_price[k])
         /\ grid_levels[k].price = format_price(grid_price[k], args.symbol)
    /\ Cardinality({k \in Levels : grid_price[k] < current_price})
         = CountLevels("BUY", "LIMIT")
    /\ Cardinality({k \in Levels : grid_price[k] = current_price})
         = CountLevels("BUY", "MARKET")
    /\ Cardinality({k \in Levels : grid_price[k] > current_price})
         = CountLevels("SELL", "LIMIT")

\* C7 witness: a LIMIT level whose recorded price is current_price
LimitLevelAtCurrentPrice ==
  /\ GridPlanned
  /\ \E k \in Levels :
       /\ grid_levels[k].price = current_price
       /\ grid_price[k] # current_price
       /\ grid_levels[k].type = "LIMIT"

\* one step of the symbol's price precision
PriceTick(symbol) ==
  IF symbol \in {"BTCUSDT", "ETHUSDT"} THEN Scale \div 100 ELSE 1

\* C8 as stated: the level prices are strictly increasing, consecutive ones
\* differ by exactly price_step, the first is lower_price and the last is
\* upper_price.
GridPricesExact ==
  GridPlanned =>
    /\ \A k \in Levels : k > 1 =>
         /\ grid_levels[k - 1].price < grid_levels[k].price
         /\ grid_levels[k].price - grid_levels[k - 1].price = grid.price_step
    /\ grid_levels[1].price = grid.lower_price
    /\ grid_levels[Len(grid_levels)].price = grid.upper_price

\* C8 amended: the unformatted level prices start at lower_price, are spaced
\* by price_step and end at upper_price within rounding error; the recorded
\* prices are these prices formatted, so they never decrease, differ from
\* the unformatted ones by at most half a tick, and strictly increase
\* whenever price_step is at least two ticks.
GridPricesWithinTolerance ==
  GridPlanned =>
    /\ grid_price[1] = grid.lower_price
    /\ \A k \in Levels : k > 1 =>
         /\ grid_price[k] - grid_price[k - 1] = grid.price_step
         /\ grid_levels[k - 1].price <= grid_levels[k].price
         /\ grid.price_step >= 2 * PriceTick(args.symbol)
              => grid_levels[k - 1].price < grid_levels[k].price
    /\ \A k \in Levels :
         2 * Abs(grid_levels[k].price - grid_price[k]) <= PriceTick(args.symbol)
    /\ 2 * Abs(grid_price[Len(grid_price)] - grid.upper_price)
         <= args.num_grids + 1

\* C8 witness: a plan of at least three levels whose recorded prices are not
\* spaced by price_step
GridPricesRounded ==
  /\ GridPlanned /\ args.num_grids >= 3
  /\ \E k \in Levels :
       k > 1 /\ grid_levels[k].price - grid_levels[k - 1].price # grid.price_step
  /\ grid_price[Len(grid_price)] # grid.upper_price

RECURSIVE SumInvestment(_, _)
SumInvestment(levels, n) ==
  IF n = 0 THEN 0 ELSE SumInvestment(levels, n - 1) + levels[n].investment

\* the plan has num_grids levels, numbered 1..num_grids, each carrying
\* total_investment / num_grids
GridSharesEqual ==
  /\ Len(grid_levels) = args.num_grids
  /\ \A k \in Levels :
       /\ grid_levels[k].level = k
       /\ grid_levels[k].investment = FDivInt(args.total_investment, args.num_grids)

\* C9 as stated: num_grids levels, each carrying total_investment/num_grids,
\* whose investments sum to total_investment.
GridInvestmentExact ==
  GridPlanned =>
    /\ GridSharesEqual
    /\ SumInvestment(grid_levels, Len(grid_levels)) = args.total_investment

\* C9 amended: the investments sum to total_investment within the rounding
\* error of the division, half a unit of resolution per level.
GridInvestmentWithinTolerance ==
  GridPlanned =>
    /\ GridSharesEqual
    /\ 2 * Abs(SumInvestment(grid_levels, Len(grid_levels)) - args.total_investment)
         <= args.num_grids

\* C9 witness: a plan whose share is rounded
GridShareRounded ==
  /\ GridPlanned
  /\ SumInvestment(grid_levels, Len(grid_levels)) # args.total_investment

\* C10: as many BUY/LIMIT as SELL/LIMIT levels; for odd num_grids the middle
\* level is at current_price and is the only MARKET level; for even
\* num_grids there is no MARKET level.
GridSymmetric ==
  GridPlanned =>
    /\ CountLevels("BUY", "LIMIT") = CountLevels("SELL", "LIMIT")
    /\ args.num_grids % 2 = 1 =>
         /\ grid_price[(args.num_grids + 1) \div 2] = current_price
         /\ grid_levels[(args.num_grids + 1) \div 2].type = "MARKET"
         /\ CountLevels("BUY", "MARKET") = 1
    /\ args.num_grids % 2 = 0 => CountLevels("BUY", "MARKET") = 0

----------------------------------------------------------------------------
(* Properties of the grid run *)

\* a grid run whose plan was confirmed
GridConfirmed ==
  /\ args.util = "grid" /\ reject = "none"
  /\ pc \in {"grid_loop", "grid_summary", "done"}

\* the levels whose submission raised
FailedLevels == {k \in 1..Len(grid_levels) : grid_levels[k].status = "FAILED"}

\* the levels of the placed orders, in the order they were placed
PlacedLevels == [k \in 1..Len(placed_orders) |-> placed_orders[k].level]

\* the members of 1..n that are not in S, in increasing order
RECURSIVE Without(_, _)
Without(n, S) ==
  IF n = 0 THEN <<>>
  ELSE IF n \in S THEN Without(n - 1, S)
  ELSE Append(Without(n - 1, S), n)

\* C11: a confirmed grid run attempts the levels 1..num_grids once each and in
\* order, and leaves the loop only after the last one; a level whose
\* submission raised is FAILED and is neither among the placed orders nor in
\* the committed value, and the levels after it are attempted all the same.
GridLevelsAttemptedOnce ==
  GridConfirmed =>
    /\ attempts = OneTo(i)
    /\ (pc = "grid_loop" => i < args.num_grids)
    /\ (pc # "grid_loop" => i = args.num_grids)
    /\ FailedLevels \subseteq 1..i
    /\ Cardinality(FailedLevels) = Len(attempts) - Len(submitted)
    /\ PlacedLevels = Without(i, FailedLevels)
    /\ total_placed_value = Len(placed_orders) * grid.investment_per_grid
    /\ \A k \in (i + 1)..Len(grid_levels) : grid_levels[k].status = "PENDING"

\* C11 witness: the first level failed and the later ones were attempted, one
\* of them placed
GridFailureThenAttempt ==
  /\ GridConfirmed /\ pc = "done"
  /\ 1 \in FailedLevels
  /\ Len(attempts) = args.num_grids
  /\ Len(placed_orders) > 0

\* a grid run is over
GridOver == args.util = "grid" /\ pc = "done"

\* the run ended before the loop: validation, the sentiment prompt or the
\* confirmation
GridTurnedDown ==
  reject \in {"symbol", "total_investment", "price_range_pct", "num_grids",
              "sentiment", "cancelled"}

\* C12 as stated: success exactly when some level's submission returned
\* without raising, failure only for a run turned down or with every
\* submission failed.
GridSuccessIffPlaced ==
  GridOver =>
    /\ result = "success" <=> Len(placed_orders) > 0
    /\ result = "failure" => GridTurnedDown \/ Len(placed_orders) = 0

\* some placed order reports a status other than FAILED and REJECTED
SomeLevelStands ==
  \E k \in 1..Len(placed_orders) :
    placed_orders[k].status # "FAILED" /\ placed_orders[k].status # "REJECTED"

\* C12: the run reports success exactly when some level's submission returned
\* without raising and with a status other than FAILED and REJECTED; it
\* reports failure only when it was turned down or no level was placed so.
GridSuccessIffPlacedNotRejected ==
  GridOver =>
    /\ result = "success" <=> SomeLevelStands
    /\ result = "failure" => GridTurnedDown \/ ~SomeLevelStands

\* C12 witness: every level was placed and reported REJECTED
GridAllRejected ==
  /\ GridOver /\ GridConfirmed /\ result = "failure"
  /\ Len(placed_orders) = args.num_grids
  /\ ~SomeLevelStands

\* C13: before the confirmation, and after a declined one, a grid run has
\* submitted or simulated no order, called futures_create_order never and
\* logged no order; a declined run ends in failure.
NoSubmissionBeforeConfirm ==
  (args.util = "grid" /\ (pc = "grid_confirm" \/ reject = "cancelled")) =>
    /\ attempts = <<>> /\ submitted = <<>> /\ order_log = <<>>
    /\ order_results = <<>> /\ placed_orders = <<>>
    /\ \A k \in 1..Len(exchange_calls) : exchange_calls[k] # "create_order"
    /\ reject = "cancelled" => pc = "done" /\ result = "failure"

\* C13 witness: a live run whose plan was declined
GridCancelled ==
  /\ args.util = "grid" /\ reject = "cancelled" /\ pc = "done"
  /\ ~simulated_mode /\ Len(grid_levels) = args.num_grids

----------------------------------------------------------------------------
(* Properties of the placers and of all utilities *)

Placers == {"market", "limit", "stop_limit", "oco"}

\* the truth table of should_trade_based_on_sentiment over the index range
SentimentTable ==
  /\ should_trade_based_on_sentiment("BUY", 39)
  /\ ~should_trade_based_on_sentiment("BUY", 40)
  /\ should_trade_based_on_sentiment("SELL", 61)
  /\ ~should_trade_based_on_sentiment("SELL", 60)
  /\ \A idx \in 0..100 :
       /\ should_trade_based_on_sentiment("BUY", idx) <=> idx < 40
       /\ should_trade_based_on_sentiment("SELL", idx) <=> idx > 60

\* the gate was consulted and the index it read is on the wrong side
GateBlocks ==
  /\ args.util \in Placers \cup {"twap"}
  /\ args.use_sentiment /\ fear_greed # -1
  /\ \/ args.side = "BUY" /\ fear_greed >= 40
     \/ args.side = "SELL" /\ fear_greed <= 60

\* the number of futures_create_order calls made so far
CreateOrderCalls ==
  Cardinality({k \in 1..Len(exchange_calls) : exchange_calls[k] = "create_order"})

\* C14: should_trade_based_on_sentiment allows BUY exactly below 40 and SELL
\* exactly above 60; a placer or a TWAP run whose gate reads an index on the
\* wrong side ends in failure without a price lookup, a submission, simulated
\* or not, or a log entry, and no run is turned away by the gate otherwise.
SentimentGateHolds ==
  /\ SentimentTable
  /\ GateBlocks =>
       /\ pc = "done" /\ result = "failure" /\ reject = "sentiment"
       /\ attempts = <<>> /\ submitted = <<>> /\ order_log = <<>>
       /\ CreateOrderCalls = 0 /\ price_src = "none"
  /\ (args.util \in Placers \cup {"twap"} /\ reject = "sentiment") => GateBlocks

\* C14 witness: a live OCO SELL turned away at index 60
OcoSellBlockedAtSixty ==
  /\ args.util = "oco" /\ args.side = "SELL" /\ fear_greed = 60
  /\ GateBlocks /\ ~simulated_mode /\ pc = "done"

\* C15: a market, limit or stop-limit invocation calls futures_create_order
\* at most once and an OCO invocation at most twice, the limit leg before the
\* stop leg; a call that raised is the last call of the invocation.
SingleAttempt ==
  args.util \in Placers =>
    /\ CreateOrderCalls <= (IF args.util = "oco" THEN 2 ELSE 1)
    /\ simulated_mode => CreateOrderCalls = 0
    /\ ~simulated_mode =>
         /\ CreateOrderCalls = Len(attempts)
         /\ Len(submitted) <= CreateOrderCalls
         /\ CreateOrderCalls <= Len(submitted) + 1
         /\ CreateOrderCalls = Len(submitted) + 1 => result = "failure"
         /\ \A k \in 1..Len(exchange_calls) :
              exchange_calls[k] = "create_order" =>
                \A j \in (k + 1)..Len(exchange_calls) :
                  exchange_calls[j] = "create_order"
    /\ attempts = OneTo(Len(attempts))
    /\ args.util = "oco" =>
         /\ Len(submitted) >= 1 => submitted[1].type \in {"LIMIT", "LIMIT_MAKER"}
         /\ Len(submitted) >= 2 => submitted[2].type \in {"STOP", "STOP_LOSS_LIMIT"}

\* C15 witness: a live OCO invocation whose limit leg raised
OcoFirstLegFailed ==
  /\ args.util = "oco" /\ ~simulated_mode /\ reject = "none"
  /\ CreateOrderCalls = 1 /\ submitted = <<>> /\ result = "failure"

\* calls of the invocation that failed: the exchange info call of the symbol
\* check, the ticker call of the price lookup, a create order call
ExchangeInfoFailed == ~simulated_mode /\ reject = "symbol"
TickerFailed ==
  /\ ~simulated_mode /\ price_src # "exchange"
  /\ \E k \in 1..Len(exchange_calls) : exchange_calls[k] = "ticker"
CreateFailed == ~simulated_mode /\ CreateOrderCalls > Len(submitted)

\* C16 as stated: a placer never ends with an uncaught exception, and an
\* invocation in which an exchange call failed ends in failure.
ExchangeFailuresCaught ==
  (args.util \in Placers /\ pc = "done") =>
    /\ result \in {"success", "failure"}
    /\ (ExchangeInfoFailed \/ TickerFailed \/ CreateFailed) => result = "failure"

\* the run was rejected for its side or for one of its numbers
ValidationRejected ==
  reject \in {"side", "quantity", "price", "prices", "total_quantity",
              "duration_minutes", "num_orders", "total_investment",
              "price_range_pct", "num_grids"}

\* C17 as stated: a run rejected by input validation has made no exchange call.
RejectedBeforeAnyCall == ValidationRejected => exchange_calls = <<>>

\* C17: a run rejected by input validation ends in failure without a price
\* lookup or an order submission; the only exchange call it has made is, in
\* live mode, the exchange info call of the symbol check, which comes first.
RejectedBeforePriceAndOrders ==
  ValidationRejected =>
    /\ pc = "done" /\ result = "failure"
    /\ exchange_calls = IF simulated_mode THEN <<>> ELSE <<"exchange_info">>
    /\ attempts = <<>> /\ submitted = <<>> /\ order_log = <<>>
    /\ price_src = "none"

\* C17 witness: a live stop-limit invocation rejected for its prices
StopLimitPricesRejectedLive ==
  /\ args.util = "stop_limit" /\ reject = "prices" /\ ~simulated_mode
  /\ pc = "done"

\* the status a simulated order result carries, by utility, as C18 states it
\* for the utilities other than OCO
SimulatedStatusesAsPlanned ==
  /\ args.util \in {"market", "twap"} =>
       \A k \in 1..Len(order_results) : order_results[k] = "FILLED"
  /\ args.util \in {"limit", "stop_limit"} =>
       \A k \in 1..Len(order_results) : order_results[k] = "NEW"
  /\ args.util = "grid" =>
       /\ Len(order_results) = Len(placed_orders)
       /\ \A k \in 1..Len(order_results) :
            /\ placed_orders[k].status = order_results[k]
            /\ order_results[k] =
                 IF grid_levels[placed_orders[k].level].type = "MARKET"
                 THEN "FILLED" ELSE "NEW"

\* C18 as stated: in simulated mode no exchange call is made and the order
\* results are FILLED for market orders, TWAP slices and MARKET levels, NEW
\* for limit and stop-limit orders, LIMIT levels and OCO legs.
SimulatedResultsFilledOrNew ==
  (simulated_mode /\ args.util # "none") =>
    /\ exchange_calls = <<>>
    /\ SimulatedStatusesAsPlanned
    /\ args.util = "oco" =>
         /\ Len(order_results) = Len(submitted)
         /\ \A k \in 1..Len(order_results) : order_results[k] = "NEW"

\* C18: in simulated mode no exchange call is made and the order results are
\* FILLED for market orders, TWAP slices and MARKET levels, NEW for limit and
\* stop-limit orders and LIMIT levels; an OCO pair gets one order result, with
\* status EXECUTING, whose two legs carry no status.
SimulatedResultsByType ==
  (simulated_mode /\ args.util # "none") =>
    /\ exchange_calls = <<>>
    /\ SimulatedStatusesAsPlanned
    /\ args.util = "oco" =>
         order_results = IF submitted = <<>> THEN <<>> ELSE <<"EXECUTING">>
    /\ args.util # "oco" => Len(order_results) = Len(submitted)

\* C18 witness: a simulated OCO pair
OcoSimulated ==
  /\ args.util = "oco" /\ simulated_mode /\ Len(submitted) = 2
  /\ order_results = <<"EXECUTING">>

\* C19 as stated: a price looked up in simulated mode is the close of the
\* last row of the historical file when the symbol has rows, the default of
\* the symbol when it has none or the file is not there; the TWAP slices take
\* theirs from the same lookup.
SimulatedPriceLastCloseOrDefault ==
  (simulated_mode /\ price_src # "none") =>
    /\ args.util \in Placers \cup {"grid"} =>
         IF hist = "rows" THEN current_price \in HistCloses
         ELSE current_price = default_prices(args.symbol)
    /\ args.util = "twap" =>
         price_src = IF hist = "rows" THEN "historical" ELSE "default"

\* the order submissions attempted so far, simulated ones included
SubmissionsAttempted ==
  IF simulated_mode THEN Len(submitted) ELSE CreateOrderCalls

\* C20 as stated: the order log holds one entry for each order submission
\* attempted, failed ones included.
OneLogEntryPerAttempt == Len(order_log) = SubmissionsAttempted

\* a live OCO invocation whose limit leg was accepted and whose stop leg raised
OcoSecondLegFailed ==
  /\ args.util = "oco" /\ ~simulated_mode /\ reject = "none"
  /\ CreateOrderCalls = 2 /\ Len(submitted) = 1

\* C21: when the limit leg of a live OCO pair was accepted and the stop leg
\* raised, the invocation ends in failure, the limit leg stays accepted, and
\* the calls made on the client are the exchange info call, the ticker call
\* and the two create order calls, with no cancel or other call after them.
OcoNoCompensation ==
  OcoSecondLegFailed =>
    /\ pc = "done" /\ result = "failure"
    /\ submitted[1].type = "LIMIT"
    /\ exchange_calls = <<"exchange_info", "ticker", "create_order", "create_order">>

\* C21 witness: a live OCO SELL pair whose stop leg raised
OcoSellStopLegFailed ==
  /\ OcoSecondLegFailed /\ args.side = "SELL" /\ pc = "done"
  /\ price_src = "exchange"

\* a stop-limit order or an OCO pair went to submission, simulated or not
DirectionalSent ==
  /\ args.util \in {"stop_limit", "oco"} /\ pc = "done" /\ attempts # <<>>

\* the inequalities of the directional checks for take-profit price p and
\* stop price s, strict or not
Directional(p, s, strict) ==
  LET above(x) == IF strict THEN x > current_price ELSE x >= current_price
      below(x) == IF strict THEN x < current_price ELSE x <= current_price
  IN  IF args.util = "stop_limit"
      THEN IF args.side = "BUY" THEN above(s) ELSE below(s)
      ELSE IF args.side = "SELL" THEN above(p) /\ below(s)
           ELSE below(p) /\ above(s)

\* C22 as stated: an order or pair that went to submission satisfies the
\* directional inequalities on the formatted prices that were sent.
DirectionOnSentPrices ==
  DirectionalSent =>
    Directional(format_price(args.price, args.symbol),
                format_price(args.stop_price, args.symbol), TRUE)

\* C22: an order or pair that went to submission satisfies the directional
\* inequalities on the prices as given to the placer; the formatted prices
\* that were sent satisfy them with equality allowed when current_price is
\* at the price precision of the symbol.
DirectionOnGivenPrices ==
  DirectionalSent =>
    /\ Directional(args.price, args.stop_price, TRUE)
    /\ format_price(current_price, args.symbol) = current_price =>
         Directional(format_price(args.price, args.symbol),
                     format_price(args.stop_price, args.symbol), FALSE)

\* C22 witness: a stop-limit BUY sent with its stop price formatted down to
\* the current price
StopSentAtCurrentPrice ==
  /\ DirectionalSent /\ args.util = "stop_limit" /\ args.side = "BUY"
  /\ args.stop_price > current_price
  /\ format_price(args.stop_price, args.symbol) = current_price

\* C23: every request that was submitted, to the exchange or as a synthetic
\* result, carries a strictly positive formatted quantity and, where it
\* carries them, a strictly positive formatted price and stop price.
SubmittedAmountsPositive ==
  \A k \in 1..Len(submitted) :
    /\ submitted[k].quantity > 0
    /\ submitted[k].price # -1 => submitted[k].price > 0
    /\ submitted[k].stop_price # -1 => submitted[k].stop_price > 0

\* C24: no order or slice fails on a data-source error. In simulated mode
\* nothing is asked of the exchange, so every order or slice that is
\* attempted yields its synthetic result, whatever the historical-price and
\* sentiment files hold.
SimulatedAttemptsAllSubmitted ==
  simulated_mode /\ args.util # "none" => Len(submitted) = Len(attempts)

\* C25: a placer whose submissions all returned successfully returns success,
\* and a live placer that does not return success leaves no order of its own
\* accepted by the exchange.
PlacerFailureLeavesNothing ==
  args.util \in Placers /\ pc = "done" =>
    /\ attempts # <<>> /\ Len(submitted) = Len(attempts) => result = "success"
    /\ ~simulated_mode /\ result # "success" => submitted = <<>>

\* the order result that the k-th entry of the order log describes: the two
\* entries of an OCO pair describe the one result of the pair
ResultOfLogEntry(k) == order_results[IF args.util = "oco" THEN 1 ELSE k]

\* C26: the status written to each entry of the order log is the status of
\* the order result the entry describes.
LoggedStatusIsResultStatus ==
  \A k \in 1..Len(order_log) : order_log[k].status = ResultOfLogEntry(k)

\* the symbols the exchange lists; validate_symbol consults no such list in
\* live mode, so which of the input symbols are on it changes no step
ExchangeSymbols == Symbols \ {"XRPUSDT"}

\* the symbols that exist for the mode the utility runs in
ExistingSymbols == IF simulated_mode THEN valid_symbols ELSE ExchangeSymbols

\* C27: for a symbol that does not exist, in the simulation's list or on the
\* exchange, no order is submitted and the utility does not return success.
OrdersOnlyForExistingSymbols ==
  args.util # "none" /\ args.symbol \notin ExistingSymbols =>
    /\ CreateOrderCalls = 0 /\ submitted = <<>>
    /\ pc = "done" => result # "success"

\* C28: a live utility that submits an order works with a current price the
\* exchange returned in this invocation.
LiveOrdersOnExchangePrice ==
  ~simulated_mode /\ CreateOrderCalls > 0 => price_src = "exchange"

\* a finished TWAP run in which every slice succeeded and reported the
\* quantity it submitted as executed in full
AllSlicesFilled ==
  /\ TwapAccepted /\ pc = "done"
  /\ Len(executed_orders) = args.num_orders
  /\ \A r \in 1..Len(executed_orders) :
       executed_orders[r].quantity =
         format_quantity(quantity_per_order, args.symbol)

\* the run executed all of total_quantity and reports it
FullExecution ==
  /\ total_executed_qty = args.total_quantity
  /\ completion_rate = Float(100)
  /\ result = "success"

\* C29 as stated: a run whose slices all succeed and fill in full executes
\* totalQuantity and reports a completion rate of 100, whatever the
\* quantity, the number of slices and the precision of the symbol.
TwapFullTotals == AllSlicesFilled => FullExecution

\* C29: such a run executes totalQuantity and reports a completion rate of
\* 100 when totalQuantity splits into numOrders equal slices and the slice
\* quantity is representable at the quantity precision of the symbol.
TwapFullTotalsWhenRepresentable ==
  (/\ AllSlicesFilled /\ DividesEvenly
   /\ format_quantity(quantity_per_order, args.symbol) = quantity_per_order)
    => FullExecution

\* C29 witness: a live run of three slices of 0.001, all filled in full
TwapThreeSmallSlicesFilled ==
  /\ AllSlicesFilled /\ DividesEvenly
  /\ format_quantity(quantity_per_order, args.symbol) = quantity_per_order
  /\ args.num_orders = 3 /\ args.total_quantity < Float(1)
  /\ ~simulated_mode

====
